---- MODULE Spec2Model ----
(***************************************************************************)
(* A model of face_deid_ct.py: the pipeline of drown_volume over one       *)
(* directory of CT slices.  Each stage of drown_volume is one action; the  *)
(* array functions are operators that compute what the numpy / OpenCV      *)
(* calls compute, on a small grid.                                         *)
(***************************************************************************)
EXTENDS Integers, Sequences, FiniteSets, TLC

VARIABLES
    directory,          \* the files of in_path, in os.listdir order
    replacer,           \* the replacer argument, a sequence of characters
    pc,                 \* the stage drown_volume is about to run
    pbar,               \* number of pbar.update() calls made
    slices,             \* load_scan's result
    pixels_hu,          \* get_pixels_hu's result
    binarized_volume,
    processed_volume,
    dilated_volume,
    unique_values_list,
    new_volume,
    printed,            \* TRUE once the replacer warning was printed
    out_files,          \* the files written under new_dir, in writing order
    raised              \* the exception that ended the run, or "none"

vars == <<directory, replacer, pc, pbar, slices, pixels_hu, binarized_volume,
          processed_volume, dilated_volume, unique_values_list, new_volume,
          printed, out_files, raised>>

(***************************************************************************)
(* Bounds of the model.  KERNEL_SIZE is 35 in the source (line 14); it is  *)
(* scaled down with the grid, which is Rows x Cols instead of 512 x 512.   *)
(***************************************************************************)
NumSlices == 2
Rows == 2
Cols == 3
KERNEL_SIZE == 3
NumSeeds == 2

(* Program constants. *)
FACE_MAX_VALUE == 50
FACE_MIN_VALUE == -125
AIR_THRESHOLD == -800
OUTSIDE_SCAN == -2000

(* The inputs the model draws from. *)
RawValues == {OUTSIDE_SCAN, 1064}
Slopes == {1, 2}
Intercepts == {-1024}
Replacers == { <<"f", "a", "c", "e">>,
               <<"a", "i", "r">>,
               <<"3", "7">>,
               <<"4", "0", "0", "0", "0">>,
               <<"b", "a", "n", "a", "n", "a">> }

Pix == (1 .. Rows) \X (1 .. Cols)
Layers == 1 .. NumSlices

(***************************************************************************)
(* numpy integer types                                                     *)
(***************************************************************************)
ToInt16(x) == ((x + 32768) % 65536) - 32768
ToUint8(x) == x % 256
\* float -> integer conversion truncates toward zero
TruncDiv(a, b) == IF a >= 0 THEN a \div b ELSE -((-a) \div b)

(***************************************************************************)
(* list.sort(key=...): a stable sort.  keys[i] is the key of seq[i].       *)
(***************************************************************************)
RankOf(keys, i) ==
    1 + Cardinality({j \in DOMAIN keys :
                        keys[j] < keys[i] \/ (keys[j] = keys[i] /\ j < i)})

SortByKey(seq, keys) ==
    [k \in 1 .. Len(seq) |->
        seq[CHOOSE i \in 1 .. Len(seq) : RankOf(keys, i) = k]]

(***************************************************************************)
(* load_scan                                                               *)
(***************************************************************************)
Abs(x) == IF x < 0 THEN -x ELSE x

load_scan(dir) ==
    LET sorted == SortByKey(dir, [i \in 1 .. Len(dir) |-> dir[i].z])
        slice_thickness == Abs(sorted[1].z - sorted[2].z)
    IN  [i \in 1 .. Len(sorted) |->
            [sorted[i] EXCEPT !.SliceThickness = slice_thickness]]

(***************************************************************************)
(* get_pixels_hu                                                           *)
(***************************************************************************)
HuOf(raw, slope, intercept) ==
    LET v0 == ToInt16(raw)
        v1 == IF v0 = OUTSIDE_SCAN THEN 0 ELSE v0
        v2 == IF slope # 1 THEN ToInt16(slope * v1) ELSE v1
    IN  ToInt16(v2 + ToInt16(intercept))

get_pixels_hu(ss) ==
    [i \in 1 .. Len(ss) |->
        [p \in Pix |->
            HuOf(ss[i].pixel_array[p], ss[i].RescaleSlope, ss[i].RescaleIntercept)]]

(***************************************************************************)
(* binarize_volume                                                         *)
(***************************************************************************)
binarize_volume(volume, air_hu) ==
    [i \in 1 .. Len(volume) |->
        [p \in Pix |-> IF volume[i][p] <= air_hu THEN 1 ELSE 0]]

(***************************************************************************)
(* largest_connected_component                                             *)
(***************************************************************************)
\* connectivity=4 in place of connectivity=8
Neighbours4(p) ==
    {q \in Pix : Abs(q[1] - p[1]) + Abs(q[2] - p[2]) = 1}

Neighbours8(p) ==
    {q \in Pix : q # p /\ Abs(q[1] - p[1]) <= 1 /\ Abs(q[2] - p[2]) <= 1}

RECURSIVE Grow(_, _)
Grow(fg, c) ==
    LET c2 == c \cup {q \in fg : \E p \in c : q \in Neighbours8(p)}
    IN  IF c2 = c THEN c ELSE Grow(fg, c2)

\* the labelled regions of cv2.connectedComponentsWithStats, background excluded
connectedComponents(binary_image) ==
    LET fg == {p \in Pix : binary_image[p] # 0}
    IN  {Grow(fg, {p}) : p \in fg}

\* labels whose area np.argmax can return: the label numbering is OpenCV's,
\* so every component of maximal area is a possible first maximum
LargestLabels(binary_image) ==
    LET comps == connectedComponents(binary_image)
    IN  {c \in comps : \A d \in comps : Cardinality(d) <= Cardinality(c)}

\* np.argmax(...) without the + 1 that skips the background label: the label
\* before a largest one is kept, the background when that one is label 1
largest_connected_component_no_offset(binary_image) ==
    LET comps == connectedComponents(binary_image)
        background == {p \in Pix : binary_image[p] = 0}
        kept == {background} \cup
                {d \in comps : \E c \in LargestLabels(binary_image) : d # c}
    IN  {[p \in Pix |-> IF p \in c THEN 1 ELSE 0] : c \in kept}

largest_connected_component(binary_image) ==
    {[p \in Pix |-> IF p \in c THEN 1 ELSE 0] : c \in LargestLabels(binary_image)}

\* the sequences whose i-th element is drawn from sets[i], for i in 1 .. n
RECURSIVE Choices(_, _)
Choices(sets, n) ==
    IF n = 0 THEN {<<>>}
    ELSE {Append(s, x) : s \in Choices(sets, n - 1), x \in sets[n]}

\* the volumes get_largest_component_volume can return (no slice raising)
get_largest_component_volume(volume) ==
    Choices([i \in 1 .. Len(volume) |-> largest_connected_component(volume[i])],
            Len(volume))

(***************************************************************************)
(* dilate_volume                                                           *)
(***************************************************************************)
\* round(sqrt(n)) for a natural n
RoundSqrt(n) ==
    CHOOSE d \in 0 .. n + 1 :
        /\ (d = 0 => 4 * n < 1)
        /\ (d > 0 => (2 * d - 1) * (2 * d - 1) <= 4 * n)
        /\ 4 * n < (2 * d + 1) * (2 * d + 1)

\* cv2.getStructuringElement(cv2.MORPH_ELLIPSE, (k, k)): the set of (row, col)
\* offsets, 0-based, that are 1
getStructuringElement(k) ==
    IF k = 1 THEN {<<0, 0>>}
    ELSE LET r == k \div 2
             c == k \div 2
         IN  {e \in (0 .. k - 1) \X (0 .. k - 1) :
                LET dy == e[1] - r
                IN  /\ Abs(dy) <= r
                    /\ LET dx == RoundSqrt(r * r - dy * dy)
                       IN  /\ e[2] >= c - dx
                           /\ e[2] < c + dx + 1}

\* cv2.dilate with the anchor at the kernel's corner (0, 0)
dilate_anchor_corner(image, kernel, k) ==
    [p \in Pix |->
        IF \E e \in kernel :
             LET q == <<p[1] + e[1], p[2] + e[2]>>
             IN  q \in Pix /\ image[q] # 0
        THEN 1 ELSE 0]

\* cv2.dilate with the default anchor (the kernel centre) and border
dilate(image, kernel, k) ==
    LET a == k \div 2
    IN  [p \in Pix |->
            IF \E e \in kernel :
                 LET q == <<p[1] + e[1] - a, p[2] + e[2] - a>>
                 IN  q \in Pix /\ image[q] # 0
            THEN 1 ELSE 0]

dilate_volume(volume, kernel_size) ==
    LET kernel == getStructuringElement(kernel_size)
    IN  [i \in 1 .. Len(volume) |-> dilate(volume[i], kernel, kernel_size)]

(***************************************************************************)
(* apply_mask_and_get_values                                               *)
(***************************************************************************)
\* dilated_volume - processed_volume on uint8 arrays
MaskDifference(a, b) ==
    [i \in 1 .. Len(a) |-> [p \in Pix |-> ToUint8(a[i][p] - b[i][p])]]

RECURSIVE SortedList(_)
SortedList(S) ==
    IF S = {} THEN <<>>
    ELSE LET m == CHOOSE x \in S : \A y \in S : x <= y
         IN  <<m>> \o SortedList(S \ {m})

apply_mask_and_get_values(image_volume, mask_volume) ==
    LET masked_volume == [i \in 1 .. Len(image_volume) |->
                            [p \in Pix |->
                                ToInt16(image_volume[i][p] * mask_volume[i][p])]]
        unique_values == {masked_volume[i][p] : i \in 1 .. Len(masked_volume), p \in Pix}
        above == {v \in unique_values : v > FACE_MIN_VALUE}
        below == {v \in above : v < FACE_MAX_VALUE}
    IN  SortedList(below)

(***************************************************************************)
(* int(replacer)                                                           *)
(***************************************************************************)
Digits == {"0", "1", "2", "3", "4", "5", "6", "7", "8", "9"}

DigitValue(ch) ==
    CASE ch = "0" -> 0 [] ch = "1" -> 1 [] ch = "2" -> 2 [] ch = "3" -> 3
      [] ch = "4" -> 4 [] ch = "5" -> 5 [] ch = "6" -> 6 [] ch = "7" -> 7
      [] ch = "8" -> 8 [] ch = "9" -> 9

RECURSIVE DigitsValue(_)
DigitsValue(s) ==
    IF s = <<>> THEN 0
    ELSE 10 * DigitsValue(SubSeq(s, 1, Len(s) - 1)) + DigitValue(s[Len(s)])

AllDigits(s) == s # <<>> /\ \A i \in 1 .. Len(s) : s[i] \in Digits

\* TRUE when int(s) returns, FALSE when it raises ValueError (a replacer of
\* letters, digits and signs: no blanks or underscores)
IntParses(s) ==
    /\ s # <<>>
    /\ IF s[1] \in {"-", "+"} THEN AllDigits(Tail(s)) ELSE AllDigits(s)

IntOf(s) ==
    IF s[1] = "-" THEN -DigitsValue(Tail(s))
    ELSE IF s[1] = "+" THEN DigitsValue(Tail(s))
    ELSE DigitsValue(s)

FACE == <<"f", "a", "c", "e">>
AIR == <<"a", "i", "r">>

(***************************************************************************)
(* apply_random_values_optimized                                           *)
(***************************************************************************)
Voxels == Layers \X Pix

VoxelBefore(v, w) ==
    \/ v[1] < w[1]
    \/ v[1] = w[1] /\ v[2][1] < w[2][1]
    \/ v[1] = w[1] /\ v[2][1] = w[2][1] /\ v[2][2] <= w[2][2]

RECURSIVE SumSet(_, _)
SumSet(f, S) ==
    IF S = {} THEN 0
    ELSE LET x == CHOOSE y \in S : TRUE
         IN  f[x] + SumSet(f, S \ {x})

\* np.sum(dilated_volume)
VolumeSum(volume) ==
    SumSet([v \in Voxels |-> volume[v[1]][v[2]]], Voxels)

\* the voxels where dilated_volume == 1
Selected(volume) == {v \in Voxels : volume[v[1]][v[2]] = 1}

\* np.random.choice(n, size): the index sequences the generator can produce,
\* one per seed of the bounded seed set
RandomChoice(n, size) ==
    {[k \in 1 .. size |-> (a + b * k) % n] :
        a \in 0 .. NumSeeds - 1, b \in 0 .. NumSeeds - 1}

\* new_volume[dilated_volume == 1] = random_values, written into the int16 copy
AssignSelected(volume, mask, values_list, random_indices) ==
    LET sel == Selected(mask)
        pos(v) == Cardinality({w \in sel : VoxelBefore(w, v)})
    IN  [i \in 1 .. Len(volume) |->
            [p \in Pix |->
                IF <<i, p>> \in sel
                THEN ToInt16(values_list[random_indices[pos(<<i, p>>)] + 1])
                ELSE volume[i][p]]]

\* new_volume = pixels_hu in place of np.copy(pixels_hu): the assignment
\* writes through to the caller's array
apply_random_values_optimized_no_copy(hu, mask, values_list) ==
    LET size == VolumeSum(mask)
        n == Len(values_list)
    IN  IF n = 0 /\ size > 0
        THEN [raises |-> "ValueError", results |-> {}]
        ELSE IF size # Cardinality(Selected(mask))
        THEN [raises |-> "ValueError", results |-> {}]
        ELSE IF size = 0
        THEN [raises |-> "none", results |-> {<<hu, hu>>}]
        ELSE [raises |-> "none",
              results |-> {<<AssignSelected(hu, mask, values_list, ri),
                             AssignSelected(hu, mask, values_list, ri)>> :
                              ri \in RandomChoice(n, size)}]

\* np.copy(pixels_hu), then the assignment into the copy.  Each result is a
\* pair: the caller's pixels_hu after the call, and the returned new_volume.
\* raises names the exception when the call does not return.
apply_random_values_optimized(hu, mask, values_list) ==
    LET size == VolumeSum(mask)
        n == Len(values_list)
    IN  IF n = 0 /\ size > 0
        THEN [raises |-> "ValueError", results |-> {}]
        ELSE IF size # Cardinality(Selected(mask))
        THEN [raises |-> "ValueError", results |-> {}]
        ELSE IF size = 0
        THEN [raises |-> "none", results |-> {<<hu, hu>>}]
        ELSE [raises |-> "none",
              results |-> {<<hu, AssignSelected(hu, mask, values_list, ri)>> :
                              ri \in RandomChoice(n, size)}]

(***************************************************************************)
(* save_new_dicom_files                                                    *)
(***************************************************************************)
\* (new_volume[i] - ds.RescaleIntercept) / ds.RescaleSlope, then astype(int16)
InverseCalibrate(layer, ds) ==
    [p \in Pix |->
        ToInt16(TruncDiv(layer[p] - ds.RescaleIntercept, ds.RescaleSlope))]

\* the .dcm files of the directory, sorted by SliceLocation
ListDicomFiles(dir) ==
    LET named == SelectSeq(dir, LAMBDA f : f.dcm)
    IN  SortByKey(named, [i \in 1 .. Len(named) |-> named[i].SliceLocation])

\* the files written before the loop ends or dicom_files[i] raises IndexError
save_new_dicom_files(volume, dir) ==
    LET dicom_files == ListDicomFiles(dir)
        n == IF Len(volume) <= Len(dicom_files) THEN Len(volume) ELSE Len(dicom_files)
    IN  [raises |-> IF Len(dicom_files) < Len(volume) THEN "IndexError" ELSE "none",
         files  |-> [i \in 1 .. n |->
                        [new_image |-> i - 1,
                         header    |-> dicom_files[i].name,
                         PixelData |-> InverseCalibrate(volume[i], dicom_files[i])]]]

(***************************************************************************)
(* drown_volume, stage by stage                                            *)
(***************************************************************************)
Fail(e) ==
    /\ pc' = "error"
    /\ raised' = e

LoadScan ==
    /\ pc = "load"
    /\ slices' = load_scan(directory)
    /\ pc' = "hu"
    /\ pbar' = pbar + 1
    /\ UNCHANGED <<directory, replacer, pixels_hu, binarized_volume, processed_volume,
                   dilated_volume, unique_values_list, new_volume, printed,
                   out_files, raised>>

GetPixelsHu ==
    /\ pc = "hu"
    /\ pixels_hu' = get_pixels_hu(slices)
    /\ pc' = "binarize"
    /\ pbar' = pbar + 1
    /\ UNCHANGED <<directory, replacer, slices, binarized_volume, processed_volume,
                   dilated_volume, unique_values_list, new_volume, printed,
                   out_files, raised>>

BinarizeVolume ==
    /\ pc = "binarize"
    /\ binarized_volume' = binarize_volume(pixels_hu, AIR_THRESHOLD)
    /\ pc' = "component"
    /\ pbar' = pbar + 1
    /\ UNCHANGED <<directory, replacer, slices, pixels_hu, processed_volume,
                   dilated_volume, unique_values_list, new_volume, printed,
                   out_files, raised>>

\* np.argmax of an empty stats[1:] raises ValueError
GetLargestComponentVolume ==
    /\ pc = "component"
    /\ IF \E i \in 1 .. Len(binarized_volume) :
            connectedComponents(binarized_volume[i]) = {}
       THEN /\ Fail("ValueError")
            /\ UNCHANGED <<processed_volume, pbar>>
       ELSE /\ processed_volume' \in get_largest_component_volume(binarized_volume)
            /\ pc' = "dilate"
            /\ pbar' = pbar + 1
            /\ UNCHANGED raised
    /\ UNCHANGED <<directory, replacer, slices, pixels_hu, binarized_volume,
                   dilated_volume, unique_values_list, new_volume, printed, out_files>>

DilateVolume ==
    /\ pc = "dilate"
    /\ dilated_volume' = dilate_volume(processed_volume, KERNEL_SIZE)
    /\ pc' = "sample"
    /\ pbar' = pbar + 1
    /\ UNCHANGED <<directory, replacer, slices, pixels_hu, binarized_volume,
                   processed_volume, unique_values_list, new_volume, printed,
                   out_files, raised>>

\* the except branch printing its message without recomputing the list
ResolveReplacerNoFallback(r, hu, dilated, processed) ==
    IF r = FACE
    THEN [list |-> apply_mask_and_get_values(hu, MaskDifference(dilated, processed)),
          warned |-> FALSE]
    ELSE IF r = AIR
    THEN [list |-> <<0>>, warned |-> FALSE]
    ELSE IF IntParses(r)
    THEN [list |-> <<IntOf(r)>>, warned |-> FALSE]
    ELSE [list |-> <<0>>, warned |-> TRUE]

\* the replacer branches of drown_volume (lines 209-221)
ResolveReplacer(r, hu, dilated, processed) ==
    IF r = FACE
    THEN [list |-> apply_mask_and_get_values(hu, MaskDifference(dilated, processed)),
          warned |-> FALSE]
    ELSE IF r = AIR
    THEN [list |-> <<0>>, warned |-> FALSE]
    ELSE IF IntParses(r)
    THEN [list |-> <<IntOf(r)>>, warned |-> FALSE]
    ELSE [list |-> apply_mask_and_get_values(hu, MaskDifference(dilated, processed)),
          warned |-> TRUE]

SampleValues ==
    /\ pc = "sample"
    /\ LET res == ResolveReplacer(replacer, pixels_hu, dilated_volume, processed_volume)
       IN  /\ unique_values_list' = res.list
           /\ printed' = res.warned
    /\ pc' = "substitute"
    /\ pbar' = pbar + 1
    /\ UNCHANGED <<directory, replacer, slices, pixels_hu, binarized_volume,
                   processed_volume, dilated_volume, new_volume, out_files, raised>>

ApplyRandomValues ==
    /\ pc = "substitute"
    /\ LET res == apply_random_values_optimized(pixels_hu, dilated_volume,
                                                unique_values_list)
       IN  IF res.raises # "none"
           THEN /\ Fail(res.raises)
                /\ UNCHANGED <<pixels_hu, new_volume, pbar>>
           ELSE /\ \E r \in res.results :
                     /\ pixels_hu' = r[1]
                     /\ new_volume' = r[2]
                /\ pc' = "save"
                /\ pbar' = pbar + 1
                /\ UNCHANGED raised
    /\ UNCHANGED <<directory, replacer, slices, binarized_volume,
                   processed_volume, dilated_volume, unique_values_list, printed,
                   out_files>>

SaveNewDicomFiles ==
    /\ pc = "save"
    /\ LET res == save_new_dicom_files(new_volume, directory)
       IN  /\ out_files' = res.files
           /\ IF res.raises # "none"
              THEN /\ Fail(res.raises)
                   /\ UNCHANGED pbar
              ELSE /\ pc' = "done"
                   /\ pbar' = pbar + 1
                   /\ UNCHANGED raised
    /\ UNCHANGED <<directory, replacer, slices, pixels_hu, binarized_volume,
                   processed_volume, dilated_volume, unique_values_list, new_volume,
                   printed>>

Next ==
    \/ LoadScan
    \/ GetPixelsHu
    \/ BinarizeVolume
    \/ GetLargestComponentVolume
    \/ DilateVolume
    \/ SampleValues
    \/ ApplyRandomValues
    \/ SaveNewDicomFiles

(***************************************************************************)
(* The directories drown_volume is run on.                                 *)
(***************************************************************************)
Images == [Pix -> RawValues]

File(n, dcm, z, loc, slope, intercept, image) ==
    [name |-> n, dcm |-> dcm, z |-> z, SliceLocation |-> loc,
     RescaleSlope |-> slope, RescaleIntercept |-> intercept,
     SliceThickness |-> 0, pixel_array |-> image]

\* every file is named *.dcm and its SliceLocation is its z position
WellFormedDirs ==
    {[i \in Layers |-> File(i, TRUE, i, i, cal[i][1], cal[i][2], img[i])] :
        cal \in [Layers -> Slopes \X Intercepts], img \in [Layers -> Images]}

Start ==
    /\ pc = "load"
    /\ pbar = 0
    /\ slices = <<>>
    /\ pixels_hu = <<>>
    /\ binarized_volume = <<>>
    /\ processed_volume = <<>>
    /\ dilated_volume = <<>>
    /\ unique_values_list = <<>>
    /\ new_volume = <<>>
    /\ printed = FALSE
    /\ out_files = <<>>
    /\ raised = "none"

Init ==
    /\ directory \in WellFormedDirs
    /\ replacer \in Replacers
    /\ Start

Spec == Init /\ [][Next]_vars

(***************************************************************************)
(* Directories as os.listdir can find them: a file name may lack the .dcm  *)
(* suffix, and SliceLocation is a header field of its own, not derived     *)
(* from ImagePositionPatient.  The two files differ in calibration.        *)
(***************************************************************************)
Positions == {0, 1}

TissueAt(S) == [p \in Pix |-> IF p \in S THEN 1064 ELSE OUTSIDE_SCAN]

ListedImages == {TissueAt({}), TissueAt({<<1, 1>>}), TissueAt(Pix)}

ListedDirs ==
    {[i \in Layers |->
        File(i, m[i][1], m[i][2], m[i][3], IF i = 1 THEN 1 ELSE 2, -1024, img[i])] :
        m \in [Layers -> BOOLEAN \X Positions \X Positions],
        img \in [Layers -> ListedImages]}

InitDir ==
    /\ directory \in ListedDirs
    /\ replacer \in Replacers
    /\ Start

SpecDir == InitDir /\ [][Next]_vars

(***************************************************************************)
(* Vocabulary of the properties.                                           *)
(***************************************************************************)
Substituted == pc \in {"save", "done"}
Sampled == pc \in {"substitute", "save", "done"}

AirPix(i) == {p \in Pix : pixels_hu[i][p] <= AIR_THRESHOLD}
BodyPix(i) == {p \in Pix : pixels_hu[i][p] > AIR_THRESHOLD}
MaskPix(mask, i) == {p \in Pix : mask[i][p] = 1}

\* 8-adjacency stated on coordinates: a king's move apart
Adj8(p, q) ==
    (p[1] - q[1]) * (p[1] - q[1]) + (p[2] - q[2]) * (p[2] - q[2]) \in {1, 2}

RECURSIVE Reach8(_, _)
Reach8(S, c) ==
    LET c2 == c \cup {q \in S : \E p \in c : Adj8(p, q)}
    IN  IF c2 = c THEN c ELSE Reach8(S, c2)

\* M is a largest 8-connected component of S
LargestComponentOf(M, S) ==
    /\ \E p \in S : M = Reach8(S, {p})
    /\ \A q \in S : Cardinality(Reach8(S, {q})) <= Cardinality(M)

CandidateSet == {unique_values_list[k] : k \in 1 .. Len(unique_values_list)}

\* the in-range intensities found at ring voxels (expanded = 1, body mask = 0)
RingIntensities ==
    {pixels_hu[v[1]][v[2]] : v \in {w \in Voxels :
        /\ dilated_volume[w[1]][w[2]] = 1
        /\ processed_volume[w[1]][w[2]] = 0
        /\ pixels_hu[w[1]][w[2]] > FACE_MIN_VALUE
        /\ pixels_hu[w[1]][w[2]] < FACE_MAX_VALUE}}

(***************************************************************************)
(* C1: after apply_random_values_optimized returns, every voxel whose      *)
(* expanded-mask value is 0 has in the Output Volume the value it has in   *)
(* the Intensity Volume, and the Intensity Volume is still the volume      *)
(* get_pixels_hu computed from the slices: the call changed only its copy. *)
(***************************************************************************)
C1_SubstitutionLocality ==
    Substituted =>
        /\ pixels_hu = get_pixels_hu(slices)
        /\ \A v \in Voxels :
              dilated_volume[v[1]][v[2]] = 0
                  => new_volume[v[1]][v[2]] = pixels_hu[v[1]][v[2]]

C1_Witness ==
    /\ Substituted
    /\ \E v \in Voxels : dilated_volume[v[1]][v[2]] = 0
    /\ \E v \in Voxels : new_volume[v[1]][v[2]] # pixels_hu[v[1]][v[2]]

(***************************************************************************)
(* C2, as amended: once get_largest_component_volume has returned, the     *)
(* body mask of every slice is a largest 8-connected component of the AIR  *)
(* voxels of that slice (intensity <= the air threshold), and no voxel     *)
(* with intensity above the threshold is in the mask.                      *)
(***************************************************************************)
C2_MaskIsLargestAirComponent ==
    processed_volume # <<>> =>
        \A i \in Layers :
            /\ LargestComponentOf(MaskPix(processed_volume, i), AirPix(i))
            /\ \A p \in BodyPix(i) : processed_volume[i][p] = 0

\* a slice with two air regions of different sizes and some body between them
C2_Witness ==
    /\ processed_volume # <<>>
    /\ \E i \in Layers :
          /\ AirPix(i) \ MaskPix(processed_volume, i) # {}
          /\ Cardinality(MaskPix(processed_volume, i)) = 2
          /\ BodyPix(i) # {}

(***************************************************************************)
(* C2, as claimed: the body mask of every slice is the largest 8-connected *)
(* component of the NON-air voxels (intensity > the air threshold), and no *)
(* voxel with intensity <= the threshold is in the mask.                   *)
(***************************************************************************)
C2_MaskIsLargestBodyComponent ==
    processed_volume # <<>> =>
        \A i \in Layers :
            /\ BodyPix(i) # {}
                  => LargestComponentOf(MaskPix(processed_volume, i), BodyPix(i))
            /\ \A p \in AirPix(i) : processed_volume[i][p] = 0

(***************************************************************************)
(* C3: after the substitution stage, every voxel of the Output Volume      *)
(* under the expanded mask holds a member of the Candidate Value Set; with *)
(* a single fixed candidate every such voxel equals it.                    *)
(***************************************************************************)
C3_MaskedVoxelsHoldCandidates ==
    Substituted =>
        \A v \in Voxels :
            dilated_volume[v[1]][v[2]] = 1
                => new_volume[v[1]][v[2]] \in CandidateSet

(***************************************************************************)
(* C4: under the 'face' policy the Candidate Value Set is exactly the set  *)
(* of intensities found at ring voxels that lie strictly between           *)
(* FACE_MIN_VALUE and FACE_MAX_VALUE; the zero that masking gives the      *)
(* voxels outside the ring is not a candidate.                             *)
(***************************************************************************)
C4_CandidatesAreRingIntensities ==
    (Sampled /\ replacer = FACE) =>
        /\ CandidateSet = RingIntensities
        /\ \A c \in CandidateSet : FACE_MIN_VALUE < c /\ c < FACE_MAX_VALUE

C6_AirIsMinus1000 ==
    (Substituted /\ replacer = AIR) =>
        \A v \in Voxels :
            dilated_volume[v[1]][v[2]] = 1 => new_volume[v[1]][v[2]] = -1000

(***************************************************************************)
(* C7: when the write-back loop has ended, normally or by an exception,    *)
(* it has written one file per loaded slice, and the header (calibration)  *)
(* used for layer i is that of the slice that produced layer i at load.    *)
(***************************************************************************)
C7_WriteBackOrderIsLoadOrder ==
    (pc = "done" \/ (pc = "error" /\ new_volume # <<>>)) =>
        /\ Len(out_files) = Len(slices)
        /\ \A i \in 1 .. Len(out_files) : out_files[i].header = slices[i].name

(***************************************************************************)
(* C8, as amended: a slice with no voxel above the air threshold is one    *)
(* air component: its body mask and its expanded mask cover the whole      *)
(* slice, and every voxel of its layer in the Output Volume is overwritten *)
(* with a candidate value (as stored in int16), whatever the other slices  *)
(* contain.                                                                *)
(***************************************************************************)
C8_AllAirSliceIsFullySubstituted ==
    \A i \in Layers :
        (pixels_hu # <<>> /\ BodyPix(i) = {}) =>
            /\ processed_volume # <<>> => MaskPix(processed_volume, i) = Pix
            /\ dilated_volume # <<>> => MaskPix(dilated_volume, i) = Pix
            /\ new_volume # <<>> =>
                  \A p \in Pix : new_volume[i][p] \in {ToInt16(c) : c \in CandidateSet}

C8_Witness ==
    /\ pc = "done"
    /\ \E i, j \in Layers :
          /\ BodyPix(i) = {}
          /\ BodyPix(j) # {}
          /\ new_volume[i] # pixels_hu[i]

(***************************************************************************)
(* C8, as claimed: for a slice with no voxel above the air threshold the   *)
(* body mask and the expanded mask are empty and its layer in the Output   *)
(* Volume equals its layer in the Intensity Volume.                        *)
(***************************************************************************)
C8_AllAirSliceIsUntouched ==
    \A i \in Layers :
        (pixels_hu # <<>> /\ BodyPix(i) = {}) =>
            /\ processed_volume # <<>> => MaskPix(processed_volume, i) = {}
            /\ dilated_volume # <<>> => MaskPix(dilated_volume, i) = {}
            /\ new_volume # <<>> => new_volume[i] = pixels_hu[i]

C10_RingIsMaskDifference ==
    dilated_volume # <<>> =>
        \A v \in Voxels :
            LET d == dilated_volume[v[1]][v[2]]
                b == processed_volume[v[1]][v[2]]
                ring == MaskDifference(dilated_volume, processed_volume)[v[1]][v[2]]
            IN  /\ b = 1 => d = 1
                /\ ring = (IF d = 1 /\ b = 0 THEN 1 ELSE 0)

C10_Witness ==
    /\ dilated_volume # <<>>
    /\ \E u, v, w \in Voxels :
          /\ processed_volume[v[1]][v[2]] = 1
          /\ dilated_volume[w[1]][w[2]] = 1 /\ processed_volume[w[1]][w[2]] = 0
          /\ dilated_volume[u[1]][u[2]] = 0

====
